---- MODULE Spec2Model ----
(***************************************************************************)
(* Model of src/talk.py: a single-session dialogue controller for an       *)
(* electricity-fee lookup.  One turn of the read loop reads an utterance,  *)
(* runs the compiled graph (intent_recognition, then one of the two flow   *)
(* nodes, then END) and copies step and user_id of the result back into    *)
(* the carried state.                                                      *)
(*                                                                         *)
(* Strings.  user_input is a sequence of characters, each character a      *)
(* one-element TLA+ string ("U+FF11" names the non-ASCII character         *)
(* FULLWIDTH DIGIT ONE).  A classifier return value is a sequence of       *)
(* tokens, each token either one whitespace character or a maximal chunk   *)
(* of non-whitespace text.  A reply is a sequence whose elements are the   *)
(* fixed fragments of the message (named in ASCII, the source text is      *)
(* Chinese) and, for the fee result, the characters of the echoed user_id. *)
(***************************************************************************)
EXTENDS Integers, Sequences, FiniteSets

VARIABLES
    initial_state,  \* the dict the read loop carries between turns (l.137-143)
    state,          \* the graph's working state; after END it is `result`
    pc,             \* where the program is: read loop, a graph node, END, ...
    llm_out,        \* what the classifier returned in this turn, stripped (l.47)
    ran,            \* the flow nodes executed so far in the current turn
    prev,           \* an earlier completed turn, kept for comparison
    hist            \* counts over the completed turns (see CommitAndCount)

vars == <<initial_state, state, pc, llm_out, ran, prev, hist>>

----------------------------------------------------------------------------
(* Characters and the regular expression of line 72                        *)

AsciiDigits == {"0", "1", "2", "3", "4", "5", "6", "7", "8", "9"}

\* Decimal digits (Unicode category Nd) outside ASCII.
UnicodeDigits == {"U+FF11"}

\* \d in a str pattern matches every Unicode decimal digit.
IsDigit(c) == c \in AsciiDigits \cup UnicodeDigits

\* The quantifier {10,12}.
MinIdLen == 10

MaxIdLen == 12

Min(S) == CHOOSE x \in S : \A y \in S : x <= y

Max(S) == CHOOSE x \in S : \A y \in S : x >= y

\* s[i], ..., s[i+n-1] exist and are all matched by \d.
DigitsAt(s, i, n) == /\ i + n - 1 <= Len(s)
                     /\ \A k \in i..(i + n - 1) : IsDigit(s[k])

\* The value of a failed re.search.
None == [found |-> FALSE, start |-> 0, stop |-> 0]

\* re.search(r'\d{10,12}', s): the leftmost position where at least 10
\* digits follow, and from there as many digits as there are, up to 12
\* (the quantifier is greedy).
re_search(s) ==
    LET starts == {i \in 1..Len(s) : DigitsAt(s, i, MinIdLen)}
    IN  IF starts = {} THEN None
        ELSE LET i == Min(starts)
                 n == Max({k \in MinIdLen..MaxIdLen : DigitsAt(s, i, k)})
             IN  [found |-> TRUE, start |-> i, stop |-> i + n - 1]

\* As group, but everything from the start of the match on is returned.
group_to_end(m, s) == SubSeq(s, m.start, Len(s))

\* id_match.group()
group(m, s) == SubSeq(s, m.start, m.stop)

----------------------------------------------------------------------------
(* The replies                                                             *)

PromptReply == <<"PROMPT: to look up your fee, give your account number (e.g. 1234567890)">>

FeeReply(user_id) ==
    <<"FEE: your account number ">> \o user_id
        \o <<" has this month's fee: ", "125.6 yuan", ", bill date 2026-01-27, due 2026-02-15">>

FormatErrorReply == <<"FORMAT-ERROR: the account number must be 10-12 digits; this lookup is over, enter 'check fee' to start again">>

CompletedReply == <<"COMPLETED: the lookup is done, enter 'check fee' to look up again">>

FallbackReply == <<"FALLBACK: only fee lookup is supported, enter 'check fee'">>

----------------------------------------------------------------------------
(* The graph nodes                                                         *)

\* As check_electric_fee_node, but a stored user_id is reused at step 0.
check_electric_fee_node_reuses_id(s) ==
    IF s.step = 0 /\ s.user_id # <<>>
    THEN [s EXCEPT !.reply = FeeReply(s.user_id), !.step = 2]
    ELSE IF s.step = 0
    THEN [s EXCEPT !.reply = PromptReply, !.step = 1]
    ELSE IF s.step = 1
    THEN LET id_match == re_search(s.user_input)
         IN  IF id_match.found
             THEN [s EXCEPT !.user_id = group(id_match, s.user_input),
                            !.reply = FeeReply(group(id_match, s.user_input)),
                            !.step = 2]
             ELSE [s EXCEPT !.reply = FormatErrorReply, !.step = 0]
    ELSE IF s.step = 2
    THEN [s EXCEPT !.reply = CompletedReply, !.step = 0]
    ELSE s

\* As check_electric_fee_node, but step 2 counts on instead of resetting.
check_electric_fee_node_counts_on(s) ==
    IF s.step = 0
    THEN [s EXCEPT !.reply = PromptReply, !.step = 1]
    ELSE IF s.step = 1
    THEN LET id_match == re_search(s.user_input)
         IN  IF id_match.found
             THEN [s EXCEPT !.user_id = group(id_match, s.user_input),
                            !.reply = FeeReply(group(id_match, s.user_input)),
                            !.step = 2]
             ELSE [s EXCEPT !.reply = FormatErrorReply, !.step = 0]
    ELSE IF s.step = 2
    THEN [s EXCEPT !.reply = CompletedReply, !.step = s.step + 1]
    ELSE s

\* As check_electric_fee_node, but the fee result echoes the whole input.
check_electric_fee_node_echoes_input(s) ==
    IF s.step = 0
    THEN [s EXCEPT !.reply = PromptReply, !.step = 1]
    ELSE IF s.step = 1
    THEN LET id_match == re_search(s.user_input)
         IN  IF id_match.found
             THEN [s EXCEPT !.user_id = group(id_match, s.user_input),
                            !.reply = FeeReply(s.user_input),
                            !.step = 2]
             ELSE [s EXCEPT !.reply = FormatErrorReply, !.step = 0]
    ELSE IF s.step = 2
    THEN [s EXCEPT !.reply = CompletedReply, !.step = 0]
    ELSE s

\* As check_electric_fee_node, but step 0 already accepts an identifier
\* that the request carries.
check_electric_fee_node_eager(s) ==
    IF s.step \in {0, 1}
    THEN LET id_match == re_search(s.user_input)
         IN  IF id_match.found
             THEN [s EXCEPT !.user_id = group(id_match, s.user_input),
                            !.reply = FeeReply(group(id_match, s.user_input)),
                            !.step = 2]
             ELSE IF s.step = 0
             THEN [s EXCEPT !.reply = PromptReply, !.step = 1]
             ELSE [s EXCEPT !.reply = FormatErrorReply, !.step = 0]
    ELSE IF s.step = 2
    THEN [s EXCEPT !.reply = CompletedReply, !.step = 0]
    ELSE s

\* As check_electric_fee_node, but a malformed identifier is asked for again.
check_electric_fee_node_retries(s) ==
    IF s.step = 0
    THEN [s EXCEPT !.reply = PromptReply, !.step = 1]
    ELSE IF s.step = 1
    THEN LET id_match == re_search(s.user_input)
         IN  IF id_match.found
             THEN [s EXCEPT !.user_id = group(id_match, s.user_input),
                            !.reply = FeeReply(group(id_match, s.user_input)),
                            !.step = 2]
             ELSE [s EXCEPT !.reply = FormatErrorReply, !.step = 1]
    ELSE IF s.step = 2
    THEN [s EXCEPT !.reply = CompletedReply, !.step = 0]
    ELSE s

\* As check_electric_fee_node, but step 2 only resets the step and writes no
\* reply.
check_electric_fee_node_silent_at_2(s) ==
    IF s.step = 0
    THEN [s EXCEPT !.reply = PromptReply, !.step = 1]
    ELSE IF s.step = 1
    THEN LET id_match == re_search(s.user_input)
         IN  IF id_match.found
             THEN [s EXCEPT !.user_id = group(id_match, s.user_input),
                            !.reply = FeeReply(group(id_match, s.user_input)),
                            !.step = 2]
             ELSE [s EXCEPT !.reply = FormatErrorReply, !.step = 0]
    ELSE IF s.step = 2
    THEN [s EXCEPT !.step = 0]
    ELSE s

\* Lines 55-88.
check_electric_fee_node(s) ==
    IF s.step = 0
    THEN [s EXCEPT !.reply = PromptReply, !.step = 1]
    ELSE IF s.step = 1
    THEN LET id_match == re_search(s.user_input)
         IN  IF id_match.found
             THEN [s EXCEPT !.user_id = group(id_match, s.user_input),
                            !.reply = FeeReply(group(id_match, s.user_input)),
                            !.step = 2]
             ELSE [s EXCEPT !.reply = FormatErrorReply, !.step = 0]
    ELSE IF s.step = 2
    THEN [s EXCEPT !.reply = CompletedReply, !.step = 0]
    ELSE s

\* As other_intent_node, but the step is left as it was.
other_intent_node_keeps_step(s) == [s EXCEPT !.reply = FallbackReply]

\* As other_intent_node, but the whole lookup is reset, user_id included.
other_intent_node_clears_id(s) ==
    [s EXCEPT !.reply = FallbackReply, !.step = 0, !.user_id = <<>>]

\* Lines 92-96.
other_intent_node(s) == [s EXCEPT !.reply = FallbackReply, !.step = 0]

\* As route_intent, but a lookup that waits for the identifier goes on
\* whatever the intent.
route_intent_continues_lookup(s) ==
    IF s.intent = "check_electric_fee" \/ s.step = 1
    THEN "check_electric_fee_node"
    ELSE "other_intent_node"

\* Lines 100-102.
route_intent(s) ==
    IF s.intent = "check_electric_fee" THEN "check_electric_fee_node"
    ELSE "other_intent_node"

\* str.strip(): leading and trailing whitespace removed.
Whitespace == {" ", "\n", "\t"}

RECURSIVE lstrip(_)
lstrip(t) == IF t # <<>> /\ Head(t) \in Whitespace THEN lstrip(Tail(t)) ELSE t

RECURSIVE rstrip(_)
rstrip(t) == IF t # <<>> /\ t[Len(t)] \in Whitespace
             THEN rstrip(SubSeq(t, 1, Len(t) - 1)) ELSE t

strip(t) == rstrip(lstrip(t))

\* As simplify_intent, but a text that only begins with the label is
\* taken for the label.
simplify_intent_by_prefix(intent) ==
    IF intent # <<>> /\ Head(intent) = "check_electric_fee"
    THEN "check_electric_fee" ELSE "other"

\* Line 50: everything but the exact label becomes "other".
simplify_intent(intent) ==
    IF intent = <<"check_electric_fee">> THEN "check_electric_fee" ELSE "other"

----------------------------------------------------------------------------
(* build_graph                                                             *)

END == "__end__"

EntryPoint == "intent_recognition"

\* The path map of add_conditional_edges.
PathMap == [check_electric_fee_node |-> "check_electric_fee_node",
            other_intent_node |-> "other_intent_node"]

\* add_edge(node, END)
Edges == [check_electric_fee_node |-> END, other_intent_node |-> END]

----------------------------------------------------------------------------
(* Inputs                                                                  *)

\* The most digit runs an utterance is put together from.
MaxRuns == 2

Letter == "a"

Short3 == <<"1", "2", "3">>

Run10 == <<"1", "2", "3", "4", "5", "6", "7", "8", "9", "0">>

Run12 == <<"9", "8", "7", "6", "5", "4", "3", "2", "1", "0", "9", "8">>

Run13 == <<"1", "2", "3", "4", "5", "6", "7", "8", "9", "0", "1", "2", "3">>

Wide10 == [i \in 1..10 |-> "U+FF11"]

\* The digit runs of an utterance: none, too short, 10 and 12 ASCII digits,
\* too long, and 10 digits that are not ASCII.
Runs == {<<>>, Short3, Run10, Run12, Run13, Wide10}

\* The runs with a letter between each two of them.
RECURSIVE Join(_)
Join(rs) == IF Len(rs) = 1 THEN Head(rs)
            ELSE Head(rs) \o <<Letter>> \o Join(Tail(rs))

\* What input() may return: utterances of up to MaxRuns runs separated by
\* letters; the empty line and lines that begin or end with a letter are
\* among them.
Inputs == {Join(rs) : rs \in UNION {[1..n -> Runs] : n \in 1..MaxRuns}}

\* The sentinel that ends the session (the two characters of line 152).
ExitWord == <<"U+9000", "U+51FA">>

\* What the classifier chain may return before strip().
LlmReturns == {<<"check_electric_fee">>,
               <<" ", "check_electric_fee", "\n">>,
               <<"other">>,
               <<>>,
               <<"\n">>,
               <<"check_electric_fee", " ", "yes">>}

\* The inputs of the runs that compare or count turns: no digits, an
\* identifier of 10 digits, one of 12.
PairInputs == {<<Letter>>, Run10, Run12}

----------------------------------------------------------------------------
(* The program                                                             *)

NoTurn == [taken |-> FALSE]

\* No turn has been completed.
NoHist == [since_err |-> -1, fees_since_err |-> 0, streak |-> 0,
           after_fee |-> FALSE]

Init ==
    /\ initial_state = [user_input |-> <<>>, intent |-> "", user_id |-> <<>>,
                        reply |-> <<>>, step |-> 0]
    /\ state = initial_state
    /\ pc = "input"
    /\ llm_out = <<>>
    /\ ran = <<>>
    /\ prev = NoTurn
    /\ hist = NoHist

\* Lines 151-158: an utterance other than the sentinel is stored in
\* initial_state and the graph is invoked on it.  The graph works on its own
\* copy of the dict it is given: the nodes' writes reach initial_state only
\* through lines 162-163.
ReadInput(text) ==
    /\ pc = "input"
    /\ text # ExitWord
    /\ initial_state' = [initial_state EXCEPT !.user_input = text]
    /\ state' = initial_state'
    /\ pc' = EntryPoint
    /\ llm_out' = <<>>
    /\ ran' = <<>>
    /\ UNCHANGED <<prev, hist>>

\* Lines 151-154: the sentinel ends the session.
Quit(text) ==
    /\ pc = "input"
    /\ text = ExitWord
    /\ pc' = "exited"
    /\ UNCHANGED <<initial_state, state, llm_out, ran, prev, hist>>

\* Lines 41-47: the chain returns a text, which is stripped.
CallClassifier ==
    /\ pc = "intent_recognition"
    /\ \E raw \in LlmReturns : llm_out' = strip(raw)
    /\ pc' = "intent_recognition_50"
    /\ UNCHANGED <<initial_state, state, ran, prev, hist>>

\* Line 47 with the chain raising (network error, timeout, bad key): nothing
\* catches the exception in the node, in the graph or in the read loop.
ClassifierRaises ==
    /\ pc = "intent_recognition"
    /\ pc' = "crashed"
    /\ UNCHANGED <<initial_state, state, llm_out, ran, prev, hist>>

\* Lines 50-51, then the conditional edge out of intent_recognition.
SetIntent ==
    /\ pc = "intent_recognition_50"
    /\ state' = [state EXCEPT !.intent = simplify_intent(llm_out)]
    /\ pc' = PathMap[route_intent(state')]
    /\ UNCHANGED <<initial_state, llm_out, ran, prev, hist>>

CheckElectricFee ==
    /\ pc = "check_electric_fee_node"
    /\ state' = check_electric_fee_node(state)
    /\ ran' = Append(ran, "check_electric_fee_node")
    /\ pc' = Edges["check_electric_fee_node"]
    /\ UNCHANGED <<initial_state, llm_out, prev, hist>>

OtherIntent ==
    /\ pc = "other_intent_node"
    /\ state' = other_intent_node(state)
    /\ ran' = Append(ran, "other_intent_node")
    /\ pc' = Edges["other_intent_node"]
    /\ UNCHANGED <<initial_state, llm_out, prev, hist>>

\* Lines 160-163: the reply is printed, step and user_id are carried over.
Commit ==
    /\ pc = END
    /\ initial_state' = [initial_state EXCEPT !.step = state.step,
                                              !.user_id = state.user_id]
    /\ pc' = "input"
    /\ UNCHANGED <<state, llm_out, ran, prev, hist>>

\* The turn that has just reached END.
ThisTurn == [taken |-> TRUE,
             step |-> initial_state.step,
             user_input |-> state.user_input,
             intent |-> state.intent,
             user_id |-> initial_state.user_id,
             out |-> <<state.reply, state.step, state.user_id>>]

\* Commit, with the turn kept for comparison with a later one.
CommitAndKeep ==
    /\ pc = END
    /\ initial_state' = [initial_state EXCEPT !.step = state.step,
                                              !.user_id = state.user_id]
    /\ pc' = "input"
    /\ prev' = ThisTurn
    /\ UNCHANGED <<state, llm_out, ran, hist>>

\* The most a count over the turns goes up to; it stays there.
MaxCount == 3

\* The turn at END is classified check_electric_fee and its input has a
\* maximal run of 10 to 12 digits.
GoodTurn ==
    /\ state.intent = "check_electric_fee"
    /\ \E i \in 1..Len(state.user_input) :
           /\ i = 1 \/ ~IsDigit(state.user_input[i - 1])
           /\ \E n \in MinIdLen..MaxIdLen :
                  /\ DigitsAt(state.user_input, i, n)
                  /\ ~DigitsAt(state.user_input, i, n + 1)

Bump(n) == IF n < MaxCount THEN n + 1 ELSE MaxCount

\* Commit, with the counts over the completed turns brought up to date:
\*   since_err  turns completed after the last format-error turn (-1: none yet)
\*   fees_since_err  those of them classified check_electric_fee
\*   streak     good turns in a row that gave no fee result, up to now
\*   after_fee  that row directly follows a good turn that gave a fee result
CommitAndCount ==
    /\ pc = END
    /\ initial_state' = [initial_state EXCEPT !.step = state.step,
                                              !.user_id = state.user_id]
    /\ pc' = "input"
    /\ hist' =
         [since_err |->
              IF state.reply = FormatErrorReply THEN 0
              ELSE IF hist.since_err < 0 THEN hist.since_err
              ELSE Bump(hist.since_err),
          fees_since_err |->
              IF state.reply = FormatErrorReply THEN 0
              ELSE IF hist.since_err < 0 THEN hist.fees_since_err
              ELSE IF state.intent = "check_electric_fee"
              THEN Bump(hist.fees_since_err)
              ELSE hist.fees_since_err,
          streak |->
              IF GoodTurn /\ state.step # 2 THEN Bump(hist.streak) ELSE 0,
          after_fee |->
              IF ~GoodTurn THEN FALSE
              ELSE IF state.step = 2 THEN TRUE
              ELSE hist.after_fee]
    /\ UNCHANGED <<state, llm_out, ran, prev>>

Next ==
    \/ \E text \in Inputs \cup {ExitWord} : ReadInput(text)
    \/ \E text \in Inputs \cup {ExitWord} : Quit(text)
    \/ CallClassifier
    \/ ClassifierRaises
    \/ SetIntent
    \/ CheckElectricFee
    \/ OtherIntent
    \/ Commit

Spec == Init /\ [][Next]_vars

NextPair ==
    \/ \E text \in PairInputs \cup {ExitWord} : ReadInput(text)
    \/ \E text \in PairInputs \cup {ExitWord} : Quit(text)
    \/ CallClassifier
    \/ ClassifierRaises
    \/ SetIntent
    \/ CheckElectricFee
    \/ OtherIntent
    \/ Commit
    \/ CommitAndKeep

SpecPair == Init /\ [][NextPair]_vars

NextCount ==
    \/ \E text \in PairInputs \cup {ExitWord} : ReadInput(text)
    \/ \E text \in PairInputs \cup {ExitWord} : Quit(text)
    \/ CallClassifier
    \/ ClassifierRaises
    \/ SetIntent
    \/ CheckElectricFee
    \/ OtherIntent
    \/ CommitAndCount

SpecCount == Init /\ [][NextCount]_vars

----------------------------------------------------------------------------
(* Notions the properties are stated in                                    *)

FeeNode == "check_electric_fee_node"

OtherNode == "other_intent_node"

\* A turn has run the flow `node` and reached END; initial_state still holds
\* the step and user_id the turn started with.
FlowDone(node) == pc = END /\ ran = <<node>>

\* s[i..j] is a maximal run of digits of s.
IsRun(s, i, j) ==
    /\ 1 <= i /\ i <= j /\ j <= Len(s)
    /\ \A k \in i..j : IsDigit(s[k])
    /\ (i = 1 \/ ~IsDigit(s[i - 1]))
    /\ (j = Len(s) \/ ~IsDigit(s[j + 1]))

DigitRuns(s) == {r \in (1..Len(s)) \X (1..Len(s)) : IsRun(s, r[1], r[2])}

RunLen(r) == r[2] - r[1] + 1

\* The maximal digit runs of 10 to 12 digits.
ValidRuns(s) == {r \in DigitRuns(s) : RunLen(r) \in 10..12}

\* The leftmost of them.
FirstValidRun(s) ==
    CHOOSE r \in ValidRuns(s) : \A q \in ValidRuns(s) : r[1] <= q[1]

\* u occurs in s as a contiguous slice.
IsSliceOf(u, s) ==
    \E i \in 1..(Len(s) + 1) :
        /\ i + Len(u) - 1 <= Len(s)
        /\ SubSeq(s, i, i + Len(u) - 1) = u

Contains(s, x) == \E k \in 1..Len(s) : s[k] = x

----------------------------------------------------------------------------
(* C1..C10                                                                 *)

\* C1: from the initial state, after any sequence of turns with any inputs
\* and any classifier results, the persisted step (and the step of every
\* result) is one of 0, 1, 2.
C1_StepInRange ==
    /\ initial_state.step \in {0, 1, 2}
    /\ state.step \in {0, 1, 2}

\* A completed lookup has been carried into the next turn's state.
C1_Witness == pc = "input" /\ initial_state.step = 2 /\ state.step = 2

\* C2: a turn never fails: the classifier's fault is never propagated out
\* of the turn, and a turn whose classifier result is not the check_fee
\* label ends with intent other, the fallback reply and step 0.
C2_TurnNeverFails ==
    /\ pc # "crashed"
    /\ (pc = END /\ llm_out # <<"check_electric_fee">>)
           => /\ state.intent = "other"
              /\ state.reply = FallbackReply
              /\ state.step = 0

\* Lemma towards C2: when the classifier returns, whatever it returns that
\* is not the label (empty text, free text) ends the turn with intent other,
\* the fallback reply and step 0.
L2_UnexpectedResultIsOther ==
    (pc = END /\ llm_out # <<"check_electric_fee">>)
        => /\ state.intent = "other"
           /\ state.reply = FallbackReply
           /\ state.step = 0

\* C3: at step 1 an input none of whose maximal digit runs has 10 to 12
\* digits fails validation: format-error reply, step 0, and user_id is not
\* set to a part of any of its runs.
C3_OnlyMaximalRunsCount ==
    (FlowDone(FeeNode) /\ initial_state.step = 1
        /\ ValidRuns(state.user_input) = {})
        => /\ state.reply = FormatErrorReply
           /\ state.step = 0
           /\ \/ state.user_id = initial_state.user_id
              \/ ~IsSliceOf(state.user_id, state.user_input)

\* C4: at step 1 on an input with more than one digit run, one of them of
\* 10 to 12 digits, the stored user_id is the leftmost run of 10 to 12
\* digits, the whole run.
C4_LeftmostValidRun ==
    (FlowDone(FeeNode) /\ initial_state.step = 1
        /\ Cardinality(DigitRuns(state.user_input)) > 1
        /\ ValidRuns(state.user_input) # {})
        => LET r == FirstValidRun(state.user_input)
           IN  state.user_id = SubSeq(state.user_input, r[1], r[2])

\* Lemma towards C4: a 10-digit run followed later by a 13-digit run yields
\* the 10-digit run.
L4_TenBeforeThirteen ==
    (FlowDone(FeeNode) /\ initial_state.step = 1
        /\ state.user_input = Run10 \o <<Letter>> \o Run13)
        => state.user_id = Run10

\* C5: at step 1 on an input with a run of 10 to 12 digits the turn ends at
\* step 2 with user_id the extracted digits (10 to 12 digits that occur in
\* the input where the extraction matched) and a reply that is the fee
\* result, holding "125.6 yuan" and echoing exactly that user_id.
C5_FeeResultEchoesId ==
    (FlowDone(FeeNode) /\ initial_state.step = 1
        /\ ValidRuns(state.user_input) # {})
        => /\ state.step = 2
           /\ re_search(state.user_input).found
           /\ state.user_id
                  = group(re_search(state.user_input), state.user_input)
           /\ Len(state.user_id) \in 10..12
           /\ \A k \in 1..Len(state.user_id) : IsDigit(state.user_id[k])
           /\ Contains(state.reply, "125.6 yuan")
           /\ SelectSeq(state.reply, IsDigit) = state.user_id
           /\ state.reply = FeeReply(state.user_id)

\* An identifier followed by text and a longer run was accepted, replacing
\* another.
C5_Witness ==
    /\ FlowDone(FeeNode) /\ initial_state.step = 1
    /\ state.user_input = Run10 \o <<Letter>> \o Run13
    /\ state.user_id = Run10
    /\ initial_state.user_id = Run12

\* C6: at step 1 an input with no valid digit run is answered, not thrown:
\* format-error reply, step 0, user_id as on entry to the turn.
C6_FormatErrorIsAValue ==
    (FlowDone(FeeNode) /\ initial_state.step = 1
        /\ ValidRuns(state.user_input) = {})
        => /\ state.reply = FormatErrorReply
           /\ state.step = 0
           /\ state.user_id = initial_state.user_id

\* Lemma towards C6: when every digit run of the input is shorter than 10
\* digits, the step-1 turn ends with the format-error reply, step 0 and
\* user_id as on entry.
L6_ShortRunsRejected ==
    (FlowDone(FeeNode) /\ initial_state.step = 1
        /\ \A r \in DigitRuns(state.user_input) : RunLen(r) < 10)
        => /\ state.reply = FormatErrorReply
           /\ state.step = 0
           /\ state.user_id = initial_state.user_id

\* C7: the Fallback Flow sets step 0 and the fallback reply whatever the
\* incoming step and input, leaves user_id as it was, and running it again
\* on its result changes nothing.
C7_FallbackResets ==
    FlowDone(OtherNode)
        => /\ state.step = 0
           /\ state.reply = FallbackReply
           /\ state.user_id = initial_state.user_id
           /\ state.user_input = initial_state.user_input
           /\ other_intent_node(state) = state

\* The fallback ran in the middle of a lookup, on an input with an identifier.
C7_Witness ==
    /\ FlowDone(OtherNode)
    /\ initial_state.step = 1
    /\ initial_state.user_id = Run12
    /\ state.user_input = Run10

\* C8: in every turn exactly one flow runs, once, and the turn then ends:
\* the Fee-Lookup Flow iff the intent is check_electric_fee, else the
\* Fallback Flow.  A turn is over at END and when it has crashed.
C8_ExactlyOneFlowPerTurn ==
    /\ Len(ran) <= 1
    /\ pc \in {END, "crashed"} => Len(ran) = 1
    /\ pc = END => /\ (state.intent = "check_electric_fee") <=> (ran = <<FeeNode>>)
                   /\ (state.intent # "check_electric_fee") <=> (ran = <<OtherNode>>)

\* Lemma towards C8: a turn whose classifier call returned runs at most one
\* flow, and at END exactly the one route_intent selects.
L8_OneFlowWhenClassified ==
    /\ Len(ran) <= 1
    /\ pc = END => /\ Len(ran) = 1
                   /\ (state.intent = "check_electric_fee") <=> (ran = <<FeeNode>>)
                   /\ (state.intent # "check_electric_fee") <=> (ran = <<OtherNode>>)

\* The turn at END and the kept one started with the same step, input and
\* intent.
SameStart ==
    /\ pc = END
    /\ prev.taken
    /\ prev.step = initial_state.step
    /\ prev.user_input = state.user_input
    /\ prev.intent = state.intent

\* C9 as stated: two turns that start with the same (step, user_input,
\* intent) end with the same (reply, step, user_id), whatever the incoming
\* user_id.
C9_Deterministic == SameStart => prev.out = ThisTurn.out

\* C9 amended: two such turns end with the same reply and step; they end
\* with the same user_id if they started with the same user_id.
C9_DeterministicGivenId ==
    SameStart
        => /\ prev.out[1] = ThisTurn.out[1]
           /\ prev.out[2] = ThisTurn.out[2]
           /\ prev.user_id = initial_state.user_id
                  => prev.out[3] = ThisTurn.out[3]

\* Two check_fee turns at step 0 on the same input, the first with no
\* stored user_id, the second with one.
C9_Witness ==
    /\ SameStart
    /\ ran = <<FeeNode>>
    /\ initial_state.step = 0
    /\ prev.user_id = <<>>
    /\ initial_state.user_id = Run10

\* C10: at step 0 the Fee-Lookup Flow replies with the prompt, goes to step
\* 1 and leaves user_id as it was, whatever the input.
C10_StepZeroPrompts ==
    (FlowDone(FeeNode) /\ initial_state.step = 0)
        => /\ state.reply = PromptReply
           /\ state.step = 1
           /\ state.user_id = initial_state.user_id

\* The request at step 0 already carried an identifier.
C10_Witness ==
    /\ FlowDone(FeeNode) /\ initial_state.step = 0
    /\ state.user_input = Run12
    /\ initial_state.user_id = Run10

----------------------------------------------------------------------------
(* C11..C20                                                                *)

\* C11: a turn that starts at step 2 ends at step 0 whatever its input and
\* intent, with the "already completed" reply from the Fee-Lookup Flow (the
\* fallback reply from the Fallback Flow) and no fee result, and step 0 is
\* what is carried into the next turn: step 2 is not carried twice in a row.
C11_StepTwoResets ==
    [][(pc = END /\ initial_state.step = 2)
          => /\ state.step = 0
             /\ ran = <<FeeNode>> => state.reply = CompletedReply
             /\ ran = <<OtherNode>> => state.reply = FallbackReply
             /\ ~Contains(state.reply, "125.6 yuan")
             /\ state.user_id = initial_state.user_id
             /\ initial_state'.step = 0]_vars

\* A check_fee turn at step 2 whose input carries another identifier.
C11_Witness ==
    /\ FlowDone(FeeNode) /\ initial_state.step = 2
    /\ initial_state.user_id = Run10
    /\ state.user_input = Run12

\* C12: a turn ends with step 2 only if it started at step 1, had intent
\* check_electric_fee and its own input holds a valid digit run (a maximal
\* run of 10 to 12 digits), of which the stored user_id and the fee result
\* are made; a user_id stored earlier is never used for a fee result.
C12_FreshLookupRecollects ==
    (pc = END /\ state.step = 2)
        => /\ initial_state.step = 1
           /\ state.intent = "check_electric_fee"
           /\ ValidRuns(state.user_input) # {}
           /\ \E r \in ValidRuns(state.user_input) :
                  state.user_id = SubSeq(state.user_input, r[1], r[2])
           /\ state.reply = FeeReply(state.user_id)

\* Lemma towards C12: a turn ends with step 2 only if it started at step 1,
\* had intent check_electric_fee and the extraction matched in its own
\* input; user_id and the fee result are made of that match.
L12_FeeResultFromOwnInput ==
    (pc = END /\ state.step = 2)
        => /\ initial_state.step = 1
           /\ state.intent = "check_electric_fee"
           /\ re_search(state.user_input).found
           /\ state.user_id
                  = group(re_search(state.user_input), state.user_input)
           /\ state.reply = FeeReply(state.user_id)

\* C13: the turn right after a format-error turn starts at step 0, so an
\* identifier it carries is not validated (no step 2, user_id as it was);
\* a turn after a format error that ends with step 2 is a check_fee turn
\* and at least one check_fee turn lies between the error and it.
C13_NoRetryAfterFormatError ==
    (pc = END /\ hist.since_err >= 0)
        => /\ hist.since_err = 0
                  => /\ initial_state.step = 0
                     /\ state.step # 2
                     /\ state.user_id = initial_state.user_id
                     /\ state.reply # FeeReply(state.user_id)
           /\ state.step = 2
                  => /\ hist.since_err >= 1
                     /\ hist.fees_since_err >= 1
                     /\ state.intent = "check_electric_fee"

\* A valid identifier, classified check_fee, right after the format error.
C13_Witness ==
    /\ FlowDone(FeeNode)
    /\ hist.since_err = 0
    /\ state.user_input = Run10
    /\ state.step = 1

\* Reached under SpecCount, so two further check_fee turns are also enough:
\* the second check_fee turn after a format error ends with step 2.
C13_SecondTurnReachesFee ==
    /\ pc = END /\ state.step = 2
    /\ hist.since_err = 1 /\ hist.fees_since_err = 1

\* The result of the graph on the incoming state s0 when the classifier
\* returns `label`: intent_recognition, the route, the routed flow.
Outcome(s0, label) ==
    LET s1 == [s0 EXCEPT !.intent = simplify_intent(label)]
    IN  IF PathMap[route_intent(s1)] = FeeNode
        THEN check_electric_fee_node(s1)
        ELSE other_intent_node(s1)

\* Values an incoming state might hold in its intent and reply fields.
StaleIntents == {"", "check_electric_fee", "other"}

StaleReplies == {<<>>, PromptReply, FallbackReply, CompletedReply,
                 FeeReply(Run10)}

\* C14: intent and reply are written in the turn before they are read: at
\* END the intent is the one made of this turn's classifier result, the
\* reply is the canned message of the branch this turn took (not the reply
\* the turn came in with), and the result is the same whatever intent and
\* reply the incoming state holds.
C14_IntentAndReplyAreTurnLocal ==
    /\ pc \in {FeeNode, OtherNode, END}
           => state.intent = simplify_intent(llm_out)
    /\ pc = END
           => /\ state.reply # initial_state.reply
              /\ state.reply
                     = (IF ran = <<OtherNode>> THEN FallbackReply
                        ELSE IF initial_state.step = 0 THEN PromptReply
                        ELSE IF initial_state.step = 2 THEN CompletedReply
                        ELSE IF state.step = 2 THEN FeeReply(state.user_id)
                        ELSE FormatErrorReply)
              /\ \A i \in StaleIntents, r \in StaleReplies :
                     Outcome([initial_state EXCEPT !.intent = i, !.reply = r],
                             llm_out) = state

\* A turn from step 2, the step reached by a turn that replied with a fee
\* result, answers with its own message.
C14_Witness ==
    /\ FlowDone(FeeNode)
    /\ initial_state.step = 2
    /\ state.reply = CompletedReply

\* C15: once the router has run (a flow node is about to run or has run),
\* intent is check_electric_fee or other, and it is check_electric_fee only
\* if the classifier's return, trimmed of surrounding whitespace, is exactly
\* the label; the empty text and any other text give other.
C15_IntentIsOneOfTwoLabels ==
    pc \in {FeeNode, OtherNode, END}
        => /\ state.intent \in {"check_electric_fee", "other"}
           /\ \E raw \in LlmReturns : llm_out = strip(raw)
           /\ (state.intent = "check_electric_fee")
                  <=> (llm_out = <<"check_electric_fee">>)
           /\ llm_out # <<"check_electric_fee">> => state.intent = "other"
           /\ pc = (IF state.intent = "check_electric_fee" THEN FeeNode
                    ELSE OtherNode) \/ pc = END

\* The classifier returned the label followed by more text; the router has
\* sent the turn to the Fallback Flow.
C15_Witness ==
    /\ pc = OtherNode
    /\ llm_out = <<"check_electric_fee", " ", "yes">>
    /\ state.intent = "other"

\* C16: a turn at step 1 classified other runs the Fallback Flow: fallback
\* reply, step 0, user_id as it was, also when the input holds a valid
\* digit run; a turn at step 1 ends with step 2 only if it is classified
\* check_electric_fee.
C16_OtherAbandonsLookup ==
    (pc = END /\ initial_state.step = 1)
        => /\ state.intent = "other"
                  => /\ ran = <<OtherNode>>
                     /\ state.reply = FallbackReply
                     /\ state.step = 0
                     /\ state.user_id = initial_state.user_id
           /\ (state.step = 2 \/ state.user_id # initial_state.user_id)
                  => state.intent = "check_electric_fee"

\* The identifier was sent at step 1 and the classifier called it other.
C16_Witness ==
    /\ FlowDone(OtherNode)
    /\ initial_state.step = 1
    /\ initial_state.user_id = <<>>
    /\ state.user_input = Run10
    /\ ValidRuns(state.user_input) # {}

\* u is empty or 10 to 12 digits.
EmptyOrId(u) ==
    \/ u = <<>>
    \/ /\ Len(u) \in 10..12
       /\ \A k \in 1..Len(u) : IsDigit(u[k])

\* C17: in every reachable state user_id (the carried one and the one of
\* the graph's state) is empty or 10 to 12 digits; whenever step is 2 it is
\* not empty, and once the turn is over it is the digits the extraction took
\* from that turn's input.
C17_UserIdWellFormed ==
    /\ EmptyOrId(initial_state.user_id)
    /\ EmptyOrId(state.user_id)
    /\ initial_state.step = 2 => initial_state.user_id # <<>>
    /\ state.step = 2 => state.user_id # <<>>
    /\ (pc \in {END, "input", "exited"} /\ state.step = 2)
           => /\ re_search(state.user_input).found
              /\ state.user_id
                     = group(re_search(state.user_input), state.user_input)
              /\ IsSliceOf(state.user_id, state.user_input)
              /\ pc # END => initial_state.user_id = state.user_id

\* A lookup has been completed on an input with a short run, a letter and
\* the identifier, and its result has been carried over.
C17_Witness ==
    /\ pc = "input"
    /\ initial_state.step = 2
    /\ initial_state.user_id = Run12
    /\ state.user_input = Short3 \o <<Letter>> \o Run12

\* C18: user_id changes only in a successful step-1 validation: the graph's
\* user_id changes only when the Fee-Lookup Flow runs at step 1 and the
\* extraction matches, the carried user_id only when the result of such a
\* turn is carried over; a user_id that is set is never cleared.
C18_UserIdChangesOnlyOnValidation ==
    [][/\ state'.user_id # state.user_id
              => /\ pc = FeeNode
                 /\ state.step = 1
                 /\ re_search(state.user_input).found
                 /\ state'.step = 2
       /\ initial_state'.user_id # initial_state.user_id
              => /\ FlowDone(FeeNode)
                 /\ initial_state.step = 1
                 /\ state.step = 2
                 /\ initial_state'.user_id
                        = group(re_search(state.user_input), state.user_input)
       /\ initial_state.user_id # <<>> => initial_state'.user_id # <<>>
       /\ state.user_id # <<>> => state'.user_id # <<>>]_vars

\* The identifier of a completed lookup is still stored after the reset to
\* step 0 and a fallback turn.
C18_Witness ==
    /\ pc = "input"
    /\ initial_state.step = 0
    /\ initial_state.user_id = Run10
    /\ state.reply = FallbackReply
    /\ state.user_input = Run12

\* C19: while every turn is a good turn (classified check_electric_fee, its
\* input with a valid digit run), the step goes 0 -> 1 -> 2 -> 0: from any
\* state at most two good turns in a row give no fee result, the next one
\* gives it, and after a fee result the next fee result is that of the third
\* good turn.
C19_GoodTurnsCycle ==
    /\ hist.streak <= 2
    /\ (pc = END /\ GoodTurn)
           => /\ state.step = (initial_state.step + 1) % 3
              /\ hist.streak = 2 => state.step = 2
              /\ (state.step = 2 /\ hist.after_fee) => hist.streak = 2

\* The third good turn after a fee result gives the next fee result.
C19_Witness ==
    /\ pc = END /\ GoodTurn
    /\ hist.after_fee /\ hist.streak = 2
    /\ state.step = 2
    /\ initial_state.user_id = Run10
    /\ state.user_id = Run12

\* s has a run of 10 or more ASCII digits.
HasAsciiRun(s) ==
    \E i \in 1..Len(s) :
        /\ i + MinIdLen - 1 <= Len(s)
        /\ \A k \in i..(i + MinIdLen - 1) : s[k] \in AsciiDigits

\* C20: only ASCII digits count: at step 1 an input whose only runs of 10
\* to 12 digit characters are made of non-ASCII digits (and that has no run
\* of 10 or more ASCII digits) fails validation: format-error reply, step 0,
\* user_id as it was.
C20_OnlyAsciiDigitsCount ==
    (FlowDone(FeeNode) /\ initial_state.step = 1
        /\ ValidRuns(state.user_input) # {}
        /\ ~HasAsciiRun(state.user_input))
        => /\ state.reply = FormatErrorReply
           /\ state.step = 0
           /\ state.user_id = initial_state.user_id

\* Lemma towards C20: an input with no run of 10 or more digit characters of
\* either kind fails validation at step 1.
L20_NoDigitsNoMatch ==
    (FlowDone(FeeNode) /\ initial_state.step = 1
        /\ \A r \in DigitRuns(state.user_input) : RunLen(r) < 10)
        => state.reply = FormatErrorReply /\ state.step = 0
====
